---- MODULE Spec2Model ----
(***************************************************************************)
(* Model of the dashboard router of src/tensorboard_server.py:             *)
(* create_app (key resolution and dispatch), get_tensorboard_app (the      *)
(* instance cache) and VolumeMiddleware.__call__ (the storage refresh).    *)
(*                                                                         *)
(* Text is modelled as a sequence of one-character strings, so that        *)
(* urllib.parse.unquote, urllib.parse.parse_qs and the Referer regular     *)
(* expression are computed character by character, as the library does.    *)
(*                                                                         *)
(* The readiness polling loop of src/start_jupyter_kernel.py is modelled   *)
(* by the variable launcher and the specification LaunchSpec.              *)
(***************************************************************************)
EXTENDS Integers, Sequences, FiniteSets, TLC

(***************************************************************************)
(* Bounds of the model.                                                    *)
(***************************************************************************)
\* requests the serving process handles in one behaviour
MaxRequests == 3
\* longest encoded logdir value enumerated for the key-resolution checks
MaxLen == 3
\* longest time, in seconds, one status call of the launcher takes to return
MaxCallSeconds == 2

(***************************************************************************)
(* Text helpers (Python str operations used by the source).                *)
(***************************************************************************)
\* Python's None
None == <<"None">>

\* truthiness of an optional string: `if logdir_param`, `if not logdir_param`
Truthy(x) == x # None /\ x # <<>>

\* s[i:] with a 1-based index
Drop(s, i) == SubSeq(s, i, Len(s))

\* str.startswith
StartsWith(s, pre) == Len(pre) <= Len(s) /\ SubSeq(s, 1, Len(pre)) = pre

\* str.endswith
EndsWith(s, suf) ==
    Len(suf) <= Len(s) /\ SubSeq(s, Len(s) - Len(suf) + 1, Len(s)) = suf

\* does pat occur in s at position i
MatchAt(s, pat, i) ==
    i >= 1 /\ i + Len(pat) - 1 <= Len(s) /\ SubSeq(s, i, i + Len(pat) - 1) = pat

\* the `in` operator on strings
Contains(s, pat) == \E i \in 1..(Len(s) + 1) : MatchAt(s, pat, i)

\* index of the first c in s, or 0
IndexOf(s, c) ==
    IF \E i \in 1..Len(s) : s[i] = c
    THEN CHOOSE i \in 1..Len(s) : s[i] = c /\ \A j \in 1..(i - 1) : s[j] # c
    ELSE 0

\* str.split(sep) for a one-character separator
RECURSIVE Split(_, _)
Split(s, sep) ==
    LET i == IndexOf(s, sep)
    IN  IF i = 0 THEN <<s>>
        ELSE <<SubSeq(s, 1, i - 1)>> \o Split(Drop(s, i + 1), sep)

\* str.split(sep, 1)
SplitOnce(s, sep) ==
    LET i == IndexOf(s, sep)
    IN  IF i = 0 THEN <<s>> ELSE <<SubSeq(s, 1, i - 1), Drop(s, i + 1)>>

\* str.replace('+', ' ')
PlusToSpace(s) == [i \in 1..Len(s) |-> IF s[i] = "+" THEN " " ELSE s[i]]

(***************************************************************************)
(* urllib.parse.unquote                                                    *)
(***************************************************************************)
HexDigits ==
    <<"0", "1", "2", "3", "4", "5", "6", "7", "8", "9",
      "A", "B", "C", "D", "E", "F">>

LowerHex == <<"a", "b", "c", "d", "e", "f">>

IsHex(c) ==
    \/ \E i \in 1..Len(HexDigits) : HexDigits[i] = c
    \/ \E i \in 1..Len(LowerHex) : LowerHex[i] = c

HexVal(c) ==
    IF \E i \in 1..Len(HexDigits) : HexDigits[i] = c
    THEN (CHOOSE i \in 1..Len(HexDigits) : HexDigits[i] = c) - 1
    ELSE (CHOOSE i \in 1..Len(LowerHex) : LowerHex[i] = c) + 9

\* the printable ASCII characters, code points 32..126 (code point 96, the
\* grave accent, is spelled out)
Ascii ==
    <<" ", "!", "\"", "#", "$", "%", "&", "'", "(", ")", "*", "+", ",", "-",
      ".", "/", "0", "1", "2", "3", "4", "5", "6", "7", "8", "9", ":", ";",
      "<", "=", ">", "?", "@", "A", "B", "C", "D", "E", "F", "G", "H", "I",
      "J", "K", "L", "M", "N", "O", "P", "Q", "R", "S", "T", "U", "V", "W",
      "X", "Y", "Z", "[", "\\", "]", "^", "_", "grave", "a", "b", "c", "d", "e",
      "f", "g", "h", "i", "j", "k", "l", "m", "n", "o", "p", "q", "r", "s",
      "t", "u", "v", "w", "x", "y", "z", "{", "|", "}", "~">>

\* U+FFFD, what errors='replace' puts for a byte that is not valid UTF-8
ReplacementChar == "U+FFFD"

\* the character a decoded byte stands for.  A byte >= 0x80 is decoded on its
\* own: the text enumerated here has no continuation bytes (0x80..0xBF), so no
\* multi-byte sequence is ever valid.
Chr(n) ==
    IF n >= 128 THEN ReplacementChar
    ELSE IF n >= 32 /\ n <= 126 THEN Ascii[n - 31]
    ELSE "\\x" \o HexDigits[(n \div 16) + 1] \o HexDigits[(n % 16) + 1]

\* unquote(string): every '%' followed by two hex digits becomes the byte they
\* name; any other '%' is kept as it is.
RECURSIVE unquote(_)
unquote(s) ==
    IF s = <<>> THEN <<>>
    ELSE IF s[1] = "%" /\ Len(s) >= 3 /\ IsHex(s[2]) /\ IsHex(s[3])
         THEN <<Chr(16 * HexVal(s[2]) + HexVal(s[3]))>> \o unquote(Drop(s, 4))
         ELSE <<s[1]>> \o unquote(Drop(s, 2))

(***************************************************************************)
(* urllib.parse.parse_qs(query_string), defaults: keep_blank_values=False, *)
(* strict_parsing=False, separator='&'.                                    *)
(***************************************************************************)
\* parse_qsl: the (name, value) pairs of the query string, in order
RECURSIVE PairsOf(_)
PairsOf(fields) ==
    IF fields = <<>> THEN <<>>
    ELSE LET nv == SplitOnce(fields[1], "=")
             rest == PairsOf(Tail(fields))
         IN  IF Len(nv) # 2 \/ nv[2] = <<>> THEN rest
             ELSE <<[name |-> unquote(PlusToSpace(nv[1])),
                     value |-> unquote(PlusToSpace(nv[2]))]>> \o rest

parse_qs(qs) == PairsOf(Split(qs, "&"))

\* params.get(name, [None])[0]
ParamsGetFirst(params, name) ==
    IF \E i \in 1..Len(params) : params[i].name = name
    THEN params[CHOOSE i \in 1..Len(params) :
                    /\ params[i].name = name
                    /\ \A j \in 1..(i - 1) : params[j].name # name].value
    ELSE None

(***************************************************************************)
(* Text constants of the source.                                           *)
(***************************************************************************)
\* 'logdir', the query parameter name
LogdirName == <<"l", "o", "g", "d", "i", "r">>

\* 'logdir=', searched for in the Referer header
LogdirEq == <<"l", "o", "g", "d", "i", "r", "=">>

\* "train_test_1", the fixed default key
DefaultKey == <<"t", "r", "a", "i", "n", "_", "t", "e", "s", "t", "_", "1">>

\* LOGDIR = f"/{STORAGE_VOLUME_NAME}", the storage root
LOGDIR == <<"/", "j", "u", "p", "y", "t", "e", "r", "_", "k", "e", "r", "n", "e", "l">>

AssetPrefixes == {<<"/", "f", "o", "n", "t", "-">>,
                  <<"/", "d", "a", "t", "a", "/">>,
                  <<"/", "e", "x", "p", "e", "r", "i", "m", "e", "n", "t", "/">>}

AssetSuffixes == {<<".", "j", "s">>, <<".", "c", "s", "s">>,
                  <<".", "w", "o", "f", "f", "2">>,
                  <<".", "w", "o", "f", "f">>,
                  <<".", "s", "v", "g">>, <<".", "p", "n", "g">>,
                  <<".", "i", "c", "o">>}

(***************************************************************************)
(* create_app: classification and key resolution.                          *)
(***************************************************************************)
\* is_asset_or_api: the path starts with '/font-', '/data/' or
\* '/experiment/', or ends with one of the static file extensions
is_asset_or_api(path_info) ==
    \/ \E pre \in AssetPrefixes : StartsWith(path_info, pre)
    \/ \E suf \in AssetSuffixes : EndsWith(path_info, suf)

\* the key carried by the query string: parse_qs, first 'logdir' value, and
\* a further unquote when the value is truthy
QueryLogdir(query_string) ==
    LET logdir_param == ParamsGetFirst(parse_qs(query_string), LogdirName)
    IN  IF Truthy(logdir_param) THEN unquote(logdir_param) ELSE logdir_param

\* the longest prefix of s without '&': what ([^&]+) takes
UpToAmp(s) ==
    LET i == IndexOf(s, "&") IN IF i = 0 THEN s ELSE SubSeq(s, 1, i - 1)

\* positions where re.search(r'logdir=([^&]+)', referer) can match
ReMatches(referer) ==
    {i \in 1..Len(referer) :
        /\ MatchAt(referer, LogdirEq, i)
        /\ i + Len(LogdirEq) <= Len(referer)
        /\ referer[i + Len(LogdirEq)] # "&"}

\* match.group(1) of the leftmost match, or None when there is no match
ReSearchLogdir(referer) ==
    IF ReMatches(referer) = {} THEN None
    ELSE LET i == CHOOSE m \in ReMatches(referer) :
                      \A n \in ReMatches(referer) : m <= n
         IN  UpToAmp(Drop(referer, i + Len(LogdirEq)))

\* RefererLogdir without the unquote of line 168
RefererLogdir_NoUnquote(referer) ==
    IF Contains(referer, LogdirEq) THEN ReSearchLogdir(referer) ELSE None

\* the key recovered from the Referer header, or None
RefererLogdir(referer) ==
    IF Contains(referer, LogdirEq) /\ ReSearchLogdir(referer) # None
    THEN unquote(ReSearchLogdir(referer))
    ELSE None

\* list(tensorboard_cache.keys())
CacheKeys(cache) == [i \in 1..Len(cache) |-> cache[i].key]

\* FallbackKey taking the last cached key, [-1] for [0]
FallbackKey_Last(cache) ==
    IF cache # <<>> THEN CacheKeys(cache)[Len(cache)] ELSE DefaultKey

\* the fallback for an asset/API request without a key: the first cached key,
\* or the default
FallbackKey(cache) ==
    IF cache # <<>> THEN CacheKeys(cache)[1] ELSE DefaultKey

\* ResolveKey with the cache fallback of lines 172-176 outside the
\* is_asset_or_api branch
ResolveKey_FallbackForPages(environ, cache) ==
    LET fromQuery == QueryLogdir(environ.query)
        fromReferer == RefererLogdir(environ.referer)
    IN  IF Truthy(fromQuery) THEN fromQuery
        ELSE IF is_asset_or_api(environ.path) /\ Truthy(fromReferer)
             THEN fromReferer
             ELSE FallbackKey(cache)

\* ResolveKey with the default key in place of the landing page
ResolveKey_DefaultForPages(environ, cache) ==
    LET fromQuery == QueryLogdir(environ.query)
    IN  IF Truthy(fromQuery) THEN fromQuery
        ELSE IF is_asset_or_api(environ.path)
             THEN LET fromReferer == RefererLogdir(environ.referer)
                  IN  IF Truthy(fromReferer) THEN fromReferer
                      ELSE FallbackKey(cache)
             ELSE DefaultKey

\* ResolveKey looking at the Referer of an asset/API request before the
\* query string
ResolveKey_RefererFirst(environ, cache) ==
    LET fromQuery == QueryLogdir(environ.query)
        fromReferer == RefererLogdir(environ.referer)
    IN  IF is_asset_or_api(environ.path) /\ Truthy(fromReferer) THEN fromReferer
        ELSE IF Truthy(fromQuery) THEN fromQuery
        ELSE IF is_asset_or_api(environ.path) THEN FallbackKey(cache)
        ELSE None

\* ResolveKey without the fallback of lines 172-176: an asset/API request
\* whose Referer gives no key is left without one
ResolveKey_NoFallback(environ, cache) ==
    LET fromQuery == QueryLogdir(environ.query)
    IN  IF Truthy(fromQuery) THEN fromQuery
        ELSE IF is_asset_or_api(environ.path)
             THEN RefererLogdir(environ.referer)
             ELSE None

\* the value of logdir_param when create_app reaches get_tensorboard_app, or
\* None when it answers with the landing page
ResolveKey(environ, cache) ==
    LET fromQuery == QueryLogdir(environ.query)
    IN  IF Truthy(fromQuery) THEN fromQuery
        ELSE IF is_asset_or_api(environ.path)
             THEN LET fromReferer == RefererLogdir(environ.referer)
                  IN  IF Truthy(fromReferer) THEN fromReferer
                      ELSE FallbackKey(cache)
             ELSE None

\* an asset/API request without a logdir parameter and with no key in its
\* Referer: every 'logdir=' there is followed by '&' or by nothing
KeylessAsset(env) ==
    /\ ~Truthy(QueryLogdir(env.query))
    /\ is_asset_or_api(env.path)
    /\ \A i \in 1..Len(env.referer) :
           MatchAt(env.referer, LogdirEq, i) =>
               \/ i + Len(LogdirEq) > Len(env.referer)
               \/ env.referer[i + Len(LogdirEq)] = "&"

\* os.path.join(LOGDIR, logdir_param): an absolute second part replaces the
\* first, otherwise the parts are joined with one '/'
full_logdir(logdir_param) ==
    IF StartsWith(logdir_param, <<"/">>) THEN logdir_param
    ELSE LOGDIR \o <<"/">> \o logdir_param

(***************************************************************************)
(* The launcher, src/start_jupyter_kernel.py: the status call.             *)
(***************************************************************************)
\* startup_timeout = 60  # seconds
startup_timeout == 60

\* time.sleep(1)
SleepSeconds == 1

\* what the "started" field of the status body can be: missing, the JSON
\* values false and true, another truthy value (the timestamp string a
\* notebook server sends, a non-zero number), another falsy value (null, 0, "")
StartedValues == {"absent", "false", "true", "truthy", "falsy"}

\* what urlopen and the body can be: a response with code 200 or another code
\* urlopen returns (204), an HTTPError (4xx, 5xx), no connection; the body a
\* JSON object, JSON that is no object, or no JSON at all
StatusOutcomes ==
    [http : {"200", "204"}, body : {"object"}, started : StartedValues]
    \cup [http : {"200", "204"}, body : {"not object", "not json"},
          started : {"absent"}]
    \cup [http : {"HTTPError", "URLError"}, body : {"none"}, started : {"absent"}]

\* does the try block of lines 117-121 raise: urlopen fails, or the code is
\* 200 and json.loads or data.get fails on the body
StatusRaises(o) ==
    \/ o.http \in {"HTTPError", "URLError"}
    \/ o.http = "200" /\ o.body # "object"

\* is_jupyter_up without the except clause of lines 122-123: the exception
\* escapes
is_jupyter_up_NoExcept(o) ==
    IF StatusRaises(o) THEN "raised"
    ELSE IF o.http = "200"
         THEN IF o.started = "absent" THEN "false" ELSE o.started
         ELSE "false"

\* is_jupyter_up(): the value it returns; an exception is caught and gives
\* False, a code other than 200 gives False, data.get("started", False) gives
\* the field or False
is_jupyter_up(o) ==
    IF StatusRaises(o) THEN "false"
    ELSE IF o.http = "200"
         THEN IF o.started = "absent" THEN "false" ELSE o.started
         ELSE "false"

\* truth value of what is_jupyter_up returned, as `if is_jupyter_up():` takes it
IsUp(v) == v \in {"true", "truthy"}

\* no status call made yet
NoOutcome == [http |-> "none", body |-> "none", started |-> "absent"]

\* the launcher when start_time has been taken (line 129)
LauncherStart ==
    [pc |-> "test", elapsed |-> 0, polls |-> 0, outcome |-> NoOutcome,
     up |-> "none", everUp |-> FALSE, reports |-> <<>>, sandbox |-> "running"]

(***************************************************************************)
(* State.                                                                  *)
(***************************************************************************)
\* the concurrent invocations of create_app by the hosting runtime
Procs == {1, 2}

VARIABLES
    tensorboard_cache, \* the dict: a sequence of [key, app] in insertion order
    created,           \* every sub-application constructed so far, in order;
                       \* a sub-application is named by its index here
    pc,                \* where each invocation of create_app is
    environ,           \* its WSGI environ
    logdir_param,      \* its resolved key
    hit,               \* whether line 104 found the key in the cache
    board,             \* the sub-application it has constructed, not yet stored
    wsgi_app,          \* the sub-application get_tensorboard_app returned
    reload,            \* what its volume.reload() did
    response,          \* what it answered
    started,           \* requests received so far
    launcher,          \* the launcher's polling loop: where it is, seconds
                       \* since start_time, status calls made, the last
                       \* outcome and return value, what it printed
    first_delegated    \* history: the kind of the first request that line 194
                       \* handed to a sub-application

vars ==
    <<tensorboard_cache, created, pc, environ, logdir_param, hit, board,
      wsgi_app, reload, response, started, launcher, first_delegated>>

NoEnviron == [query |-> None, path |-> None, referer |-> None]

NoApp == 0

NoResponse == [kind |-> "none", status |-> 0, app |-> NoApp, environ |-> NoEnviron]

\* volume.reload(): it returns, or raises a RuntimeError, another Exception, or
\* a BaseException that is no Exception (KeyboardInterrupt, SystemExit); the
\* first two with or without "open files preventing" in the message
ReloadOutcomes ==
    {[raised |-> "nothing", open_files |-> FALSE],
     [raised |-> "RuntimeError", open_files |-> TRUE],
     [raised |-> "RuntimeError", open_files |-> FALSE],
     [raised |-> "Exception", open_files |-> TRUE],
     [raised |-> "Exception", open_files |-> FALSE],
     [raised |-> "BaseException", open_files |-> FALSE]}

NotReloaded == [raised |-> "not attempted", open_files |-> FALSE]

(***************************************************************************)
(* The instance cache, a dict.                                             *)
(***************************************************************************)
\* key in tensorboard_cache
CacheHas(cache, k) == \E i \in 1..Len(cache) : cache[i].key = k

\* tensorboard_cache[key]
CacheGet(cache, k) == cache[CHOOSE i \in 1..Len(cache) : cache[i].key = k].app

\* CachePut on a cache that holds one entry: a new key evicts the old one
CachePut_Evicting(cache, k, app) ==
    IF CacheHas(cache, k)
    THEN [i \in 1..Len(cache) |->
             IF cache[i].key = k THEN [key |-> k, app |-> app] ELSE cache[i]]
    ELSE <<[key |-> k, app |-> app]>>

\* CachePut with a new key placed first
CachePut_Front(cache, k, app) ==
    IF CacheHas(cache, k)
    THEN [i \in 1..Len(cache) |->
             IF cache[i].key = k THEN [key |-> k, app |-> app] ELSE cache[i]]
    ELSE <<[key |-> k, app |-> app]>> \o cache

\* tensorboard_cache[key] = app: a new key goes last, a present key keeps its
\* place and gets the new value
CachePut(cache, k, app) ==
    IF CacheHas(cache, k)
    THEN [i \in 1..Len(cache) |->
             IF cache[i].key = k THEN [key |-> k, app |-> app] ELSE cache[i]]
    ELSE Append(cache, [key |-> k, app |-> app])

(***************************************************************************)
(* Requests of the model.                                                  *)
(***************************************************************************)
Queries == {<<>>, LogdirEq \o <<"r", "%", "2", "F", "x">>}

Paths == {<<"/">>, <<"/", "r", ".", "j", "s">>}

Referers == {<<>>, <<"h", "?">> \o LogdirEq \o <<"x", "&", "r">>}

Environs == [query : Queries, path : Paths, referer : Referers]

(***************************************************************************)
(* Init: the state when tensorboard_app() has returned create_app.         *)
(***************************************************************************)
Init ==
    /\ tensorboard_cache = <<>>
    /\ created = <<>>
    /\ pc = [p \in Procs |-> "idle"]
    /\ environ = [p \in Procs |-> NoEnviron]
    /\ logdir_param = [p \in Procs |-> None]
    /\ hit = [p \in Procs |-> FALSE]
    /\ board = [p \in Procs |-> NoApp]
    /\ wsgi_app = [p \in Procs |-> NoApp]
    /\ reload = [p \in Procs |-> NotReloaded]
    /\ response = [p \in Procs |-> NoResponse]
    /\ started = 0
    /\ launcher = LauncherStart
    /\ first_delegated = "none"

(***************************************************************************)
(* create_app, lines 135-190: parse, classify, resolve the key; answer     *)
(* with the landing page or go on to get_tensorboard_app.                  *)
(***************************************************************************)
LandingResponse ==
    [kind |-> "landing", status |-> 200, app |-> NoApp, environ |-> NoEnviron]

create_app(p, env) ==
    /\ pc[p] = "idle"
    /\ started < MaxRequests
    /\ started' = started + 1
    /\ environ' = [environ EXCEPT ![p] = env]
    /\ logdir_param' = [logdir_param EXCEPT ![p] = ResolveKey(env, tensorboard_cache)]
    /\ IF ResolveKey(env, tensorboard_cache) = None
       THEN /\ response' = [response EXCEPT ![p] = LandingResponse]
            /\ pc' = [pc EXCEPT ![p] = "done"]
       ELSE /\ response' = response
            /\ pc' = [pc EXCEPT ![p] = "check"]
    /\ UNCHANGED <<tensorboard_cache, created, hit, board, wsgi_app, reload>>

(***************************************************************************)
(* get_tensorboard_app, lines 103-133.                                     *)
(***************************************************************************)
\* GetCheck without the membership test: every request constructs
GetCheck_AlwaysMiss(p) ==
    /\ pc[p] = "check"
    /\ hit' = [hit EXCEPT ![p] = FALSE]
    /\ pc' = [pc EXCEPT ![p] = "construct"]
    /\ UNCHANGED <<tensorboard_cache, created, environ, logdir_param, board,
                   wsgi_app, reload, response, started>>

\* line 104: if logdir_param not in tensorboard_cache
GetCheck(p) ==
    /\ pc[p] = "check"
    /\ hit' = [hit EXCEPT ![p] = CacheHas(tensorboard_cache, logdir_param[p])]
    /\ pc' = [pc EXCEPT ![p] =
                 IF CacheHas(tensorboard_cache, logdir_param[p])
                 THEN "return" ELSE "construct"]
    /\ UNCHANGED <<tensorboard_cache, created, environ, logdir_param, board,
                   wsgi_app, reload, response, started>>

\* the sub-application lines 105-131 construct for a key
NewApp(k) == [key |-> k, root |-> full_logdir(k)]

\* GetConstruct with a volume.reload() of its own ahead of line 105
GetConstruct_ReloadFirst(p) ==
    /\ pc[p] = "construct"
    /\ created' = Append(created, NewApp(logdir_param[p]))
    /\ board' = [board EXCEPT ![p] = Len(created) + 1]
    /\ reload' = [reload EXCEPT ![p] = [raised |-> "nothing", open_files |-> FALSE]]
    /\ pc' = [pc EXCEPT ![p] = "insert"]
    /\ UNCHANGED <<tensorboard_cache, environ, logdir_param, hit, wsgi_app,
                   response, started>>

\* lines 105-131: a new TensorBoardWSGIApp rooted at full_logdir
GetConstruct(p) ==
    /\ pc[p] = "construct"
    /\ created' = Append(created, NewApp(logdir_param[p]))
    /\ board' = [board EXCEPT ![p] = Len(created) + 1]
    /\ pc' = [pc EXCEPT ![p] = "insert"]
    /\ UNCHANGED <<tensorboard_cache, environ, logdir_param, hit, wsgi_app,
                   reload, response, started>>

\* line 132: tensorboard_cache[logdir_param] = wsgi_app
GetInsert(p) ==
    /\ pc[p] = "insert"
    /\ tensorboard_cache' = CachePut(tensorboard_cache, logdir_param[p], board[p])
    /\ pc' = [pc EXCEPT ![p] = "return"]
    /\ UNCHANGED <<created, environ, logdir_param, hit, board, wsgi_app,
                   reload, response, started>>

\* line 133 and line 193: wsgi_app = tensorboard_cache[logdir_param]
GetReturn(p) ==
    /\ pc[p] = "return"
    /\ wsgi_app' = [wsgi_app EXCEPT ![p] = CacheGet(tensorboard_cache, logdir_param[p])]
    /\ pc' = [pc EXCEPT ![p] = "reload"]
    /\ UNCHANGED <<tensorboard_cache, created, environ, logdir_param, hit,
                   board, reload, response, started>>

(***************************************************************************)
(* VolumeMiddleware.__call__, lines 71-86, entered through line 194.       *)
(***************************************************************************)
\* Propagates without the test of the message: every RuntimeError is raised
Propagates_AnyRuntimeError(outcome) ==
    \/ outcome.raised = "RuntimeError"
    \/ outcome.raised = "BaseException"

\* Propagates with the raise of line 83 left out
Propagates_NoReraise(outcome) == outcome.raised = "BaseException"

\* does the try statement of lines 73-85 let the error out
Propagates(outcome) ==
    \/ outcome.raised = "RuntimeError" /\ ~outcome.open_files
    \/ outcome.raised = "BaseException"

\* VolumeReload without the call of volume.reload()
VolumeReload_NoAttempt(p, outcome) ==
    /\ pc[p] = "reload"
    /\ pc' = [pc EXCEPT ![p] = "app"]
    /\ UNCHANGED <<tensorboard_cache, created, environ, logdir_param, hit,
                   board, wsgi_app, reload, response, started>>

\* lines 73-85: volume.reload() and its handlers
VolumeReload(p, outcome) ==
    /\ pc[p] = "reload"
    /\ reload' = [reload EXCEPT ![p] = outcome]
    /\ IF Propagates(outcome)
       THEN /\ response' = [response EXCEPT ![p] =
                               [kind |-> "raised", status |-> 0,
                                app |-> wsgi_app[p], environ |-> environ[p]]]
            /\ pc' = [pc EXCEPT ![p] = "done"]
       ELSE /\ response' = response
            /\ pc' = [pc EXCEPT ![p] = "app"]
    /\ UNCHANGED <<tensorboard_cache, created, environ, logdir_param, hit,
                   board, wsgi_app, started>>

\* line 86: return self.app(environ, start_response), returned by line 194
SubApp(p) ==
    /\ pc[p] = "app"
    /\ response' = [response EXCEPT ![p] =
                       [kind |-> "delegated", status |-> 0,
                        app |-> wsgi_app[p], environ |-> environ[p]]]
    /\ pc' = [pc EXCEPT ![p] = "done"]
    /\ UNCHANGED <<tensorboard_cache, created, environ, logdir_param, hit,
                   board, wsgi_app, reload, started>>

\* the invocation is over; its locals are gone
Finish(p) ==
    /\ pc[p] = "done"
    /\ pc' = [pc EXCEPT ![p] = "idle"]
    /\ environ' = [environ EXCEPT ![p] = NoEnviron]
    /\ logdir_param' = [logdir_param EXCEPT ![p] = None]
    /\ hit' = [hit EXCEPT ![p] = FALSE]
    /\ board' = [board EXCEPT ![p] = NoApp]
    /\ wsgi_app' = [wsgi_app EXCEPT ![p] = NoApp]
    /\ reload' = [reload EXCEPT ![p] = NotReloaded]
    /\ response' = [response EXCEPT ![p] = NoResponse]
    /\ UNCHANGED <<tensorboard_cache, created, started>>

(***************************************************************************)
(* Specifications.                                                         *)
(***************************************************************************)
Request ==
    /\ \E p \in Procs : \E env \in Environs : create_app(p, env)
    /\ UNCHANGED <<launcher, first_delegated>>

Check ==
    /\ \E p \in Procs : GetCheck(p)
    /\ UNCHANGED <<launcher, first_delegated>>

Construct ==
    /\ \E p \in Procs : GetConstruct(p)
    /\ UNCHANGED <<launcher, first_delegated>>

Insert ==
    /\ \E p \in Procs : GetInsert(p)
    /\ UNCHANGED <<launcher, first_delegated>>

\* the kind of request line 194 hands over
DelegatedKind(env) == IF KeylessAsset(env) THEN "keyless asset" ELSE "other"

Return ==
    /\ \E p \in Procs :
           /\ GetReturn(p)
           /\ first_delegated' =
                  IF first_delegated = "none" THEN DelegatedKind(environ[p])
                  ELSE first_delegated
    /\ UNCHANGED launcher

Reload ==
    /\ \E p \in Procs : \E outcome \in ReloadOutcomes : VolumeReload(p, outcome)
    /\ UNCHANGED <<launcher, first_delegated>>

Delegate ==
    /\ \E p \in Procs : SubApp(p)
    /\ UNCHANGED <<launcher, first_delegated>>

End ==
    /\ \E p \in Procs : Finish(p)
    /\ UNCHANGED <<launcher, first_delegated>>

Next ==
    \/ Request
    \/ Check
    \/ Construct
    \/ Insert
    \/ Return
    \/ Reload
    \/ Delegate
    \/ End

\* requests handled concurrently (modal.concurrent, line 94)
Spec == Init /\ [][Next]_vars

\* no other invocation is in progress
Quiet == \A q \in Procs : pc[q] = "idle"

SeqRequest == Quiet /\ Request

SeqNext ==
    \/ SeqRequest
    \/ Check
    \/ Construct
    \/ Insert
    \/ Return
    \/ Reload
    \/ Delegate
    \/ End

\* requests handled one after another
SeqSpec == Init /\ [][SeqNext]_vars

(***************************************************************************)
(* Key resolution on enumerated text: create_app handles one request whose *)
(* query string and Referer carry every encoded value up to MaxLen         *)
(* characters, in an empty and in a filled cache.                          *)
(***************************************************************************)
ValueAlphabet == {"r", "%", "2", "F", "&"}

RECURSIVE StringsOfLen(_)
StringsOfLen(n) ==
    IF n = 0 THEN {<<>>}
    ELSE {<<c>> \o s : c \in ValueAlphabet, s \in StringsOfLen(n - 1)}

\* the spec's example run%2Fexp1 (shortened), a doubly encoded separator, a
\* plus sign
ExtraValues == {<<"r", "%", "2", "F", "x">>, <<"%", "2", "5", "2", "F">>, <<"r", "+", "x">>}

EncodedValues == UNION {StringsOfLen(n) : n \in 0..MaxLen} \cup ExtraValues

ResolveQueries(v) == {<<>>, LogdirEq \o v, <<"x", "=", "r", "&">> \o LogdirEq \o v}

ResolveReferers(v) ==
    {<<>>,
     <<"h", "?", "x", "=", "r">>,
     <<"h", "?">> \o LogdirEq \o <<"x">>,
     <<"h", "?">> \o LogdirEq \o v,
     <<"h", "?", "x", "=", "r", "&">> \o LogdirEq \o v \o <<"&">> \o LogdirEq \o <<"x">>}

ResolvePaths == {<<"/">>, <<"/", "r", ".", "j", "s">>, <<"/", "d", "a", "t", "a", "/", "r">>, <<"/", "d", "a", "t", "a">>, <<"/", "r", ".", "w", "o", "f", "f", "2">>}

ResolveEnvirons ==
    UNION {[query : ResolveQueries(v), path : ResolvePaths,
            referer : ResolveReferers(v)] : v \in EncodedValues}

\* caches earlier requests can have left: empty, one key, two keys
ResolveCaches == {<<>>, <<<<"x">>>>, <<<<"r", "/", "x">>, <<"x">>>>}

ResolveInit ==
    \E keys \in ResolveCaches : \E env \in ResolveEnvirons :
        /\ tensorboard_cache = [i \in 1..Len(keys) |-> [key |-> keys[i], app |-> i]]
        /\ created = [i \in 1..Len(keys) |-> NewApp(keys[i])]
        /\ pc = [p \in Procs |-> "idle"]
        /\ environ = [p \in Procs |-> IF p = 1 THEN env ELSE NoEnviron]
        /\ logdir_param = [p \in Procs |-> None]
        /\ hit = [p \in Procs |-> FALSE]
        /\ board = [p \in Procs |-> NoApp]
        /\ wsgi_app = [p \in Procs |-> NoApp]
        /\ reload = [p \in Procs |-> NotReloaded]
        /\ response = [p \in Procs |-> NoResponse]
        /\ started = Len(keys)
        /\ launcher = LauncherStart
        /\ first_delegated = IF keys = <<>> THEN "none" ELSE "other"

\* create_app runs on the request that is waiting
ResolveStep ==
    /\ \E p \in Procs : environ[p] # NoEnviron /\ create_app(p, environ[p])
    /\ UNCHANGED <<launcher, first_delegated>>

\* the one request is handled to its response
ResolveNext ==
    \/ ResolveStep
    \/ Check
    \/ Construct
    \/ Insert
    \/ Return
    \/ Reload
    \/ Delegate

ResolveSpec == ResolveInit /\ [][ResolveNext]_vars

(***************************************************************************)
(* The launcher's polling loop, src/start_jupyter_kernel.py lines 127-136.  *)
(* Time is counted in whole seconds since start_time; the loop test and the *)
(* prints take no time, a status call takes 0..MaxCallSeconds, as urlopen   *)
(* is given no timeout.                                                     *)
(***************************************************************************)
routerVars ==
    <<tensorboard_cache, created, pc, environ, logdir_param, hit, board,
      wsgi_app, reload, response, started, first_delegated>>

\* line 130: while time.time() - start_time < startup_timeout; lines 135-136:
\* the else branch, when the test fails
LoopTest ==
    /\ launcher.pc = "test"
    /\ IF launcher.elapsed < startup_timeout
       THEN launcher' = [launcher EXCEPT !.pc = "poll", !.polls = @ + 1]
       ELSE launcher' = [launcher EXCEPT !.pc = "end",
                                         !.reports = Append(@, "timed out")]
    /\ UNCHANGED routerVars

\* PollReturn printing "up and running" without the break of line 133
PollReturn_NoBreak(o, d) ==
    /\ launcher.pc = "poll"
    /\ launcher' =
           [launcher EXCEPT
               !.elapsed = @ + d,
               !.outcome = o,
               !.up = is_jupyter_up(o),
               !.everUp = @ \/ IsUp(is_jupyter_up(o)),
               !.reports = IF IsUp(is_jupyter_up(o)) THEN Append(@, "ready") ELSE @,
               !.pc = "sleep"]
    /\ UNCHANGED routerVars

\* lines 131-133: is_jupyter_up() returns after d seconds with outcome o; when
\* it is up the loop prints and breaks (an exception out of is_jupyter_up
\* would end the script with a traceback)
PollReturn(o, d) ==
    /\ launcher.pc = "poll"
    /\ launcher' =
           [launcher EXCEPT
               !.elapsed = @ + d,
               !.outcome = o,
               !.up = is_jupyter_up(o),
               !.everUp = @ \/ IsUp(is_jupyter_up(o)),
               !.reports = IF IsUp(is_jupyter_up(o)) THEN Append(@, "ready") ELSE @,
               !.pc = IF is_jupyter_up(o) = "raised" THEN "crashed"
                      ELSE IF IsUp(is_jupyter_up(o)) THEN "end"
                      ELSE "sleep"]
    /\ UNCHANGED routerVars

\* line 134: time.sleep(1)
Sleep ==
    /\ launcher.pc = "sleep"
    /\ launcher' = [launcher EXCEPT !.elapsed = @ + SleepSeconds, !.pc = "test"]
    /\ UNCHANGED routerVars

Poll == \E o \in StatusOutcomes : \E d \in 0..MaxCallSeconds : PollReturn(o, d)

LaunchNext ==
    \/ LoopTest
    \/ Poll
    \/ Sleep

\* the launcher script from line 129 on
LaunchSpec == Init /\ [][LaunchNext]_vars

(***************************************************************************)
(* Properties.                                                             *)
(***************************************************************************)
\* the request of p carries no usable logdir query parameter
NoQueryKey(p) == ~Truthy(QueryLogdir(environ[p].query))

\* number of sub-applications constructed for key k
Constructions(k) == Cardinality({i \in DOMAIN created : created[i].key = k})

\* p has its sub-application in hand
HasApp(p) == pc[p] \in {"reload", "app", "done"} /\ logdir_param[p] # None

\* C1: when requests are handled one after another, exactly one
\* sub-application is constructed per resolved key: no two constructions share
\* a key, every constructed sub-application is the cached one of its key, a
\* request that misses the cache gets the one it constructs, and a request
\* that hits the cache constructs nothing and gets the cached one.
C1_OnePerKeySequential ==
    /\ \A i, j \in DOMAIN created : created[i].key = created[j].key => i = j
    /\ \A i \in DOMAIN tensorboard_cache :
           created[tensorboard_cache[i].app].key = tensorboard_cache[i].key
    /\ \A i \in DOMAIN created :
           \/ \E j \in DOMAIN tensorboard_cache : tensorboard_cache[j].app = i
           \/ \E p \in Procs : pc[p] = "insert" /\ board[p] = i
    /\ \A p \in Procs : HasApp(p) =>
           /\ Constructions(logdir_param[p]) = 1
           /\ wsgi_app[p] = CacheGet(tensorboard_cache, logdir_param[p])
           /\ created[wsgi_app[p]].key = logdir_param[p]
           /\ hit[p] => board[p] = NoApp
           /\ ~hit[p] => board[p] = wsgi_app[p]

\* a request is answered from the cache while two keys have been constructed
C1_Witness ==
    \E p \in Procs :
        /\ pc[p] = "done"
        /\ response[p].kind = "delegated"
        /\ hit[p]
        /\ Len(created) = 2
        /\ created[1].key # created[2].key

\* C2: under concurrent invocation at most one sub-application is ever
\* constructed per key.
C2_AtMostOnePerKeyConcurrent ==
    \A k \in {created[i].key : i \in DOMAIN created} : Constructions(k) <= 1

\* the reload of p raised an error naming open files
OpenFilesError(p) ==
    reload[p].raised \in {"RuntimeError", "Exception"} /\ reload[p].open_files

\* the request of p went on to the wrapped application, whose response is
\* what p answers
Delegated(p) ==
    \/ pc[p] = "app"
    \/ /\ pc[p] = "done"
       /\ response[p] = [kind |-> "delegated", status |-> 0,
                         app |-> wsgi_app[p], environ |-> environ[p]]

\* C3: a reload error whose message contains "open files preventing" does
\* not propagate; the request is passed to the wrapped sub-application.
C3_OpenFilesSwallowed ==
    \A p \in Procs : OpenFilesError(p) => Delegated(p)

C3_Witness ==
    \E p \in Procs :
        /\ reload[p] = [raised |-> "RuntimeError", open_files |-> TRUE]
        /\ pc[p] = "done"
        /\ response[p].kind = "delegated"

\* the reload of p raised something
ReloadRaised(p) == reload[p].raised \notin {"not attempted", "nothing"}

\* C4 as stated: whatever volume.reload() raises is swallowed and the request
\* is delegated.
C4_EveryReloadErrorSwallowed ==
    \A p \in Procs : ReloadRaised(p) => Delegated(p)

\* C4 amended: a RuntimeError without "open files preventing" and an
\* exception that is no Exception propagate and fail the request; every other
\* reload error is swallowed and the request is delegated.
C4_SwallowedExceptUnexpectedRuntimeError ==
    \A p \in Procs : ReloadRaised(p) =>
        IF \/ reload[p].raised = "RuntimeError" /\ ~reload[p].open_files
           \/ reload[p].raised = "BaseException"
        THEN pc[p] = "done" /\ response[p].kind = "raised"
        ELSE Delegated(p)

C4_Witness ==
    /\ \E p \in Procs :
           /\ reload[p] = [raised |-> "Exception", open_files |-> FALSE]
           /\ pc[p] = "done"
           /\ response[p].kind = "delegated"
    /\ \E p \in Procs :
           /\ reload[p] = [raised |-> "RuntimeError", open_files |-> FALSE]
           /\ pc[p] = "done"
           /\ response[p].kind = "raised"

\* p has just received a request without a logdir parameter on a path that
\* is no asset/API path
LandingRequest(p) ==
    /\ pc[p] = "idle"
    /\ pc'[p] # "idle"
    /\ ~Truthy(QueryLogdir(environ'[p].query))
    /\ ~is_asset_or_api(environ'[p].path)

\* C5: a request without logdir on a non-asset path is answered with the
\* landing page and status 200 whatever the cache and the Referer; it
\* resolves no key, constructs and calls no sub-application, attempts no
\* reload and leaves the cache as it was.
C5_LandingPage ==
    [][\A p \in Procs : LandingRequest(p) =>
          /\ pc'[p] = "done"
          /\ response'[p].kind = "landing"
          /\ response'[p].status = 200
          /\ response'[p].app = NoApp
          /\ logdir_param'[p] = None
          /\ board'[p] = NoApp
          /\ wsgi_app'[p] = NoApp
          /\ reload'[p] = NotReloaded
          /\ tensorboard_cache' = tensorboard_cache
          /\ created' = created]_vars

\* the landing page is the answer in a filled cache, to a request whose
\* Referer names a key
C5_Witness ==
    \E p \in Procs :
        /\ pc[p] = "done"
        /\ response[p].kind = "landing"
        /\ Contains(environ[p].referer, LogdirEq)
        /\ tensorboard_cache # <<>>

\* p handles a request without a logdir parameter on a non-asset path, and
\* the cache holds an instance
KeylessPageInFilledCache(p) ==
    /\ pc[p] # "idle"
    /\ NoQueryKey(p)
    /\ ~is_asset_or_api(environ[p].path)
    /\ tensorboard_cache # <<>>

\* C6 as stated: such a request resolves to the fixed default key.
C6_FallsBackToDefaultKey ==
    \A p \in Procs : KeylessPageInFilledCache(p) => logdir_param[p] = DefaultKey

\* C6 amended: such a request resolves to no key at all, neither the default
\* key nor a cached one, and is answered with the landing page.
C6_ResolvesNoKey ==
    \A p \in Procs : KeylessPageInFilledCache(p) =>
        /\ logdir_param[p] = None
        /\ logdir_param[p] # DefaultKey
        /\ ~CacheHas(tensorboard_cache, logdir_param[p])
        /\ pc[p] = "done"
        /\ response[p].kind = "landing"

C6_Witness ==
    \E p \in Procs :
        /\ KeylessPageInFilledCache(p)
        /\ environ[p].path = <<"/">>
        /\ Len(tensorboard_cache) = 2
        /\ response[p].kind = "landing"

\* the text that follows the first 'logdir=' of s, up to the next '&' or the
\* end of s
ValueAfterLogdirEq(s) ==
    LET i == CHOOSE m \in 1..Len(s) :
                 /\ MatchAt(s, LogdirEq, m)
                 /\ \A n \in 1..(m - 1) : ~MatchAt(s, LogdirEq, n)
        rest == Drop(s, i + Len(LogdirEq))
        n == CHOOSE m \in 0..Len(rest) :
                 /\ \A j \in 1..m : rest[j] # "&"
                 /\ m = Len(rest) \/ rest[m + 1] = "&"
    IN  SubSeq(rest, 1, n)

\* p handles an asset/API request without a logdir parameter whose Referer
\* holds 'logdir=<v>' with a non-empty v
RefererCase(p) ==
    /\ pc[p] # "idle"
    /\ NoQueryKey(p)
    /\ is_asset_or_api(environ[p].path)
    /\ Contains(environ[p].referer, LogdirEq)
    /\ ValueAfterLogdirEq(environ[p].referer) # <<>>

\* C7: for an asset/API request without logdir whose Referer holds
\* 'logdir=<v>', the resolved key is the percent-decoded v, taken from the
\* first 'logdir=' up to the next '&' or the end (logdir=r%2Fx gives r/x),
\* whatever the cache holds.
C7_RefererKey ==
    \A p \in Procs : RefererCase(p) =>
        /\ logdir_param[p] = unquote(ValueAfterLogdirEq(environ[p].referer))
        /\ environ[p].referer = <<"h", "?">> \o LogdirEq \o <<"r", "%", "2", "F", "x">>
               => logdir_param[p] = <<"r", "/", "x">>

\* the Referer key r/x is resolved although the cache would fall back to x
C7_Witness ==
    \E p \in Procs :
        /\ RefererCase(p)
        /\ environ[p].referer = <<"h", "?">> \o LogdirEq \o <<"r", "%", "2", "F", "x">>
        /\ tensorboard_cache # <<>>
        /\ tensorboard_cache[1].key = <<"x">>
        /\ logdir_param[p] = <<"r", "/", "x">>
        /\ pc[p] = "done"
        /\ response[p].kind = "delegated"

\* C8: an asset/API request with no key in the query string or the Referer
\* resolves to the first key of the cache when the cache holds an instance
\* and to "train_test_1" when it is empty; it is never answered with the
\* landing page, and the sub-application of its key is constructed and cached
\* by the time it is served.
C8_CacheFallback ==
    /\ [][\A p \in Procs :
             (pc[p] = "idle" /\ pc'[p] # "idle" /\ KeylessAsset(environ'[p])) =>
                 /\ pc'[p] = "check"
                 /\ logdir_param'[p] =
                        IF tensorboard_cache # <<>>
                        THEN tensorboard_cache[1].key
                        ELSE DefaultKey]_vars
    /\ [](\A p \in Procs : (HasApp(p) /\ KeylessAsset(environ[p])) =>
             /\ CacheHas(tensorboard_cache, logdir_param[p])
             /\ created[wsgi_app[p]].key = logdir_param[p]
             /\ ~hit[p] => /\ logdir_param[p] = DefaultKey
                           /\ board[p] # NoApp
                           /\ created[board[p]].key = DefaultKey)

\* a key-less asset request is served by the first of two cached keys
C8_Witness ==
    \E p \in Procs :
        /\ pc[p] = "done"
        /\ KeylessAsset(environ[p])
        /\ Len(tensorboard_cache) = 2
        /\ logdir_param[p] = tensorboard_cache[1].key
        /\ logdir_param[p] # tensorboard_cache[2].key
        /\ response[p].kind = "delegated"
        /\ response[p].app = tensorboard_cache[1].app

\* p handles a request whose query string carries 'logdir=<k>', k not empty
QueryCase(p) ==
    /\ pc[p] # "idle"
    /\ Contains(environ[p].query, LogdirEq)
    /\ ValueAfterLogdirEq(environ[p].query) # <<>>

\* the key of a logdir query value: the value as the query-string parser
\* decodes it ('+' is a space, %XX a byte), URL-decoded as line 144 does
DecodedQueryKey(v) == unquote(unquote(PlusToSpace(v)))

C10_ReloadBeforeEveryResponse ==
    \A p \in Procs : response[p].kind # "none" => reload[p] # NotReloaded

\* C10 amended: every request handed to a sub-application had a reload
\* attempted before its outcome; a request answered with the landing page had
\* none.
C10_ReloadBeforeDelegatedResponse ==
    \A p \in Procs :
        /\ response[p].kind \in {"delegated", "raised"} => reload[p] # NotReloaded
        /\ pc[p] = "app" => reload[p] # NotReloaded
        /\ response[p].kind = "landing" => reload[p] = NotReloaded

C10_Witness ==
    /\ \E p \in Procs :
           /\ response[p].kind = "delegated"
           /\ reload[p] = [raised |-> "nothing", open_files |-> FALSE]
    /\ \E p \in Procs : response[p].kind = "landing"

\* C11: the polling loop has stopped within 60 seconds of its start, however
\* long a status call takes.
C11_StopsWithinStartupTimeout ==
    launcher.pc = "end" => launcher.elapsed <= startup_timeout

\* the launcher has a status call behind it
Polled == launcher.outcome # NoOutcome

\* C12: the status check never raises; it reports ready exactly for a 200
\* response whose body is an object with a true "started" field, and not
\* ready for every other code, failure and body; after a check that is not
\* ready the loop sleeps and goes back to its test.
C12_StatusCheckNeverRaises ==
    /\ [](Polled =>
             /\ launcher.up # "raised"
             /\ launcher.pc # "crashed"
             /\ IsUp(launcher.up) <=>
                    /\ launcher.outcome.http = "200"
                    /\ launcher.outcome.body = "object"
                    /\ launcher.outcome.started \in {"true", "truthy"}
             /\ launcher.outcome.http # "200" => ~IsUp(launcher.up)
             /\ launcher.outcome.body # "object" => ~IsUp(launcher.up)
             /\ launcher.outcome.started \in {"absent", "false"}
                    => ~IsUp(launcher.up))
    /\ [][(launcher.pc = "poll" /\ ~IsUp(launcher'.up))
             => launcher'.pc = "sleep"]_vars
    /\ [][launcher.pc = "sleep" => launcher'.pc = "test"]_vars

\* a failed connection was taken as not ready and the loop polled again
C12_Witness ==
    /\ launcher.pc = "poll"
    /\ launcher.polls = 2
    /\ launcher.outcome.http = "URLError"
    /\ launcher.up = "false"
    /\ launcher.reports = <<>>

\* C13: a run of the loop that has ended has printed exactly one report,
\* "ready" if and only if a poll returned ready, "timed out" otherwise; before
\* the end it has printed none; after the report no poll is made and nothing
\* more is printed; the sandbox is never terminated.
C13_OneFinalReport ==
    /\ [](/\ launcher.pc = "end" =>
                 /\ Len(launcher.reports) = 1
                 /\ launcher.reports[1] = "ready" <=> launcher.everUp
                 /\ launcher.reports[1] = "timed out" <=> ~launcher.everUp
          /\ launcher.pc # "end" => launcher.reports = <<>>
          /\ launcher.sandbox = "running")
    /\ [][launcher.reports # <<>> =>
             /\ launcher'.polls = launcher.polls
             /\ launcher'.reports = launcher.reports]_vars

\* the budget ran out after several polls: one report, the sandbox left running
C13_Witness ==
    /\ launcher.pc = "end"
    /\ launcher.reports = <<"timed out">>
    /\ launcher.polls > 2
    /\ launcher.elapsed >= startup_timeout
    /\ launcher.sandbox = "running"

\* the query string or the Referer of env has a 'logdir=' with no value after
\* it
BlankLogdir(env) ==
    \/ /\ Contains(env.query, LogdirEq)
       /\ ValueAfterLogdirEq(env.query) = <<>>
    \/ /\ Contains(env.referer, LogdirEq)
       /\ ValueAfterLogdirEq(env.referer) = <<>>

\* C14: whatever the query string, the path, the Referer and the cache,
\* create_app resolves without raising and goes one of two ways: the landing
\* page, with no key and only on a path that is no asset/API path, or
\* get_tensorboard_app with a non-empty key, whose sub-application the
\* request is handed to; an error reaches the caller only from the
\* sub-application's own reload, and an asset/API request never gets the
\* landing page.
C14_LandingOrDelegation ==
    /\ [](\A p \in Procs : pc[p] # "idle" =>
             /\ logdir_param[p] = None =>
                    /\ pc[p] = "done"
                    /\ response[p] = LandingResponse
                    /\ ~is_asset_or_api(environ[p].path)
                    /\ wsgi_app[p] = NoApp
             /\ logdir_param[p] # None =>
                    /\ Truthy(logdir_param[p])
                    /\ logdir_param[p] # <<>>
                    /\ response[p].kind # "landing"
                    /\ pc[p] = "done" =>
                           /\ response[p].kind \in {"delegated", "raised"}
                           /\ response[p].app = wsgi_app[p]
                           /\ wsgi_app[p] # NoApp
                           /\ created[wsgi_app[p]].key = logdir_param[p]
                    /\ response[p].kind = "raised" => Propagates(reload[p])
             /\ is_asset_or_api(environ[p].path) => logdir_param[p] # None)
    /\ [][\A p \in Procs : (pc[p] = "idle" /\ pc'[p] # "idle") =>
             /\ pc'[p] \in {"done", "check"}
             /\ response'[p].kind \in {"none", "landing"}
             /\ pc'[p] = "done" <=> response'[p].kind = "landing"]_vars

\* an asset request with blank 'logdir=' in the query string and in the
\* Referer, on an empty cache, is delegated under the default key
C14_Witness ==
    \E p \in Procs :
        /\ pc[p] = "done"
        /\ environ[p].query = LogdirEq
        /\ environ[p].referer = <<"h", "?">> \o LogdirEq
        /\ BlankLogdir(environ[p])
        /\ is_asset_or_api(environ[p].path)
        /\ Len(tensorboard_cache) = 1
        /\ logdir_param[p] = DefaultKey
        /\ response[p].kind = "delegated"

\* C15: every sub-application constructed for a key k is rooted at
\* <storage-root>/<k>, a path below the storage root /jupyter_kernel, also
\* when k begins with a path separator.
C15_RootedBelowStorageRoot ==
    \A i \in DOMAIN created :
        /\ created[i].root = LOGDIR \o <<"/">> \o created[i].key
        /\ StartsWith(created[i].root, LOGDIR \o <<"/">>)

\* the keys of the cache, as a set
KeySet(cache) == {cache[i].key : i \in DOMAIN cache}

\* C16: no step of any request removes a key from tensorboard_cache, and a
\* key is added only by the insert of get_tensorboard_app (line 132), run by
\* a request that resolved that key and did not find it at line 104; the
\* insert adds that one key.
C16_NeverEvicted ==
    [][/\ KeySet(tensorboard_cache) \subseteq KeySet(tensorboard_cache')
       /\ Len(tensorboard_cache') >= Len(tensorboard_cache)
       /\ KeySet(tensorboard_cache') # KeySet(tensorboard_cache) =>
              \E p \in Procs :
                  /\ pc[p] = "insert"
                  /\ pc'[p] = "return"
                  /\ ~hit[p]
                  /\ KeySet(tensorboard_cache') =
                         KeySet(tensorboard_cache) \cup {logdir_param[p]}
       /\ \A p \in Procs :
              (pc[p] # "insert" /\ pc'[p] # pc[p]) =>
                  tensorboard_cache' = tensorboard_cache]_vars

\* a second key has been added and the first is still there when a later
\* request is served from it
C16_Witness ==
    /\ Len(tensorboard_cache) = 2
    /\ tensorboard_cache[1].key # tensorboard_cache[2].key
    /\ started = MaxRequests
    /\ \E p \in Procs :
           /\ pc[p] = "done"
           /\ hit[p]
           /\ logdir_param[p] = tensorboard_cache[1].key

\* C17: also under concurrent invocation, a value stored in tensorboard_cache
\* for a key is never replaced by another instance, and every request that
\* has its sub-application in hand holds the instance the cache holds for its
\* key, so that requests with the same key hold the same instance.
C17_SameInstancePerKey ==
    /\ [](\A p \in Procs : HasApp(p) =>
             /\ wsgi_app[p] = CacheGet(tensorboard_cache, logdir_param[p])
             /\ \A q \in Procs :
                    (HasApp(q) /\ logdir_param[q] = logdir_param[p])
                        => wsgi_app[q] = wsgi_app[p])
    /\ [][\A i \in DOMAIN tensorboard_cache :
             CacheGet(tensorboard_cache', tensorboard_cache[i].key)
                 = tensorboard_cache[i].app]_vars

\* the first key of the cache is the key of the first insert and stays: a
\* step on a filled cache keeps its first key, and the step that fills the
\* empty cache is an insert that puts its own key and sub-application there
FirstKeyFixed ==
    /\ (tensorboard_cache # <<>>) =>
           /\ tensorboard_cache' # <<>>
           /\ tensorboard_cache'[1].key = tensorboard_cache[1].key
    /\ (tensorboard_cache = <<>> /\ tensorboard_cache' # <<>>) =>
           \E p \in Procs :
               /\ pc[p] = "insert"
               /\ tensorboard_cache' =
                      <<[key |-> logdir_param[p], app |-> board[p]]>>

\* a key-less asset/API request arrives and gets the default key
KeylessGetsDefault ==
    \A p \in Procs :
        (pc[p] = "idle" /\ pc'[p] # "idle" /\ KeylessAsset(environ'[p]))
            => logdir_param'[p] = DefaultKey

\* C18 as stated: the first key of the cache is the key of the first insert
\* and never changes; if the first request handed to a sub-application is an
\* asset/API request with no recoverable key, the first key is "train_test_1"
\* and every later key-less asset/API request falls back to it.
C18_FirstDelegatedFixesFallback ==
    /\ [][FirstKeyFixed]_vars
    /\ [](first_delegated = "keyless asset" =>
             FallbackKey(tensorboard_cache) = DefaultKey)
    /\ [][first_delegated = "keyless asset" => KeylessGetsDefault]_vars

\* C18 amended: the first key of the cache is the key of the first insert and
\* never changes; if the first insert is made by an asset/API request with no
\* recoverable key, the first key is "train_test_1" and every later key-less
\* asset/API request falls back to it. The first request handed to a
\* sub-application need not be the one that inserted first.
C18_FirstInsertFixesFallback ==
    /\ [][FirstKeyFixed]_vars
    /\ [][\A p \in Procs :
             (/\ tensorboard_cache = <<>>
              /\ pc[p] = "insert"
              /\ pc'[p] # "insert"
              /\ KeylessAsset(environ[p]))
                 => /\ tensorboard_cache'[1].key = DefaultKey
                    /\ FallbackKey(tensorboard_cache') = DefaultKey]_vars
    /\ [][(tensorboard_cache # <<>> /\ tensorboard_cache[1].key = DefaultKey)
             => /\ KeylessGetsDefault
                /\ FallbackKey(tensorboard_cache') = DefaultKey]_vars

\* the default key was inserted first by a key-less asset request, a second
\* key followed, and a later key-less asset request is served under the
\* default key
C18_Witness ==
    /\ Len(tensorboard_cache) = 2
    /\ tensorboard_cache[1].key = DefaultKey
    /\ first_delegated = "keyless asset"
    /\ started = MaxRequests
    /\ \E p \in Procs :
           /\ pc[p] = "done"
           /\ KeylessAsset(environ[p])
           /\ hit[p]
           /\ logdir_param[p] = DefaultKey
           /\ response[p].kind = "delegated"

\* p resolved a key that line 104 did not find in the cache
UncachedKey(p) ==
    pc[p] \in {"construct", "insert", "return", "reload", "app", "done"} /\ ~hit[p]
        /\ logdir_param[p] # None

\* C19 as stated: for a request that resolves to an uncached key the reload
\* is attempted before the sub-application is constructed and before it is
\* inserted into the cache.
C19_ReloadBeforeConstruction ==
    \A p \in Procs : UncachedKey(p) =>
        /\ board[p] # NoApp => reload[p] # NotReloaded
        /\ pc[p] \in {"insert", "return"} => reload[p] # NotReloaded

\* C19 amended: for a request that resolves to an uncached key no reload has
\* been attempted while the sub-application is constructed, inserted and
\* looked up; the reload is attempted by the sub-application's middleware,
\* after all three and before the wrapped application sees the request.
C19_ReloadAfterInsert ==
    \A p \in Procs : UncachedKey(p) =>
        /\ pc[p] \in {"construct", "insert", "return", "reload"}
               => reload[p] = NotReloaded
        /\ reload[p] # NotReloaded =>
               /\ board[p] # NoApp
               /\ created[board[p]].key = logdir_param[p]
               /\ CacheHas(tensorboard_cache, logdir_param[p])
               /\ wsgi_app[p] # NoApp
        /\ pc[p] = "app" => reload[p] # NotReloaded
        /\ response[p].kind \in {"delegated", "raised"} => reload[p] # NotReloaded

\* a request has constructed and inserted the sub-application of its key and
\* no reload has been attempted yet; another was served after its reload
C19_Witness ==
    /\ \E p \in Procs :
           /\ UncachedKey(p)
           /\ pc[p] = "return"
           /\ CacheHas(tensorboard_cache, logdir_param[p])
           /\ reload[p] = NotReloaded
    /\ \E q \in Procs :
           /\ UncachedKey(q)
           /\ pc[q] = "done"
           /\ response[q].kind = "delegated"
           /\ reload[q].raised = "nothing"

\* the URL of the page whose query string is q, as its assets send it in the
\* Referer header
PageUrl(q) == <<"h", "?">> \o q

\* C20: a page request with query string 'logdir=v' resolves to the key that
\* an asset request without logdir resolves to from the Referer
\* '...?logdir=v' of that page, and an asset request that takes its key from
\* such a Referer resolves to the key of the page, for every encoded v.
C20_QueryAndRefererKeysAgree ==
    \A p \in Procs :
        /\ (QueryCase(p) /\ StartsWith(environ[p].query, LogdirEq)) =>
               logdir_param[p] = RefererLogdir(PageUrl(environ[p].query))
        /\ (RefererCase(p) /\ StartsWith(environ[p].referer, PageUrl(LogdirEq))) =>
               logdir_param[p] = QueryLogdir(Drop(environ[p].referer, 3))

====
